---- MODULE Spec2Model ----
(***************************************************************************)
(* The LS-8 emulator of ls8/cpu.py: the CPU object (registers, internal    *)
(* registers, RAM), its methods ram_read, ram_write, load, alu, trace and  *)
(* run, and a host that calls them.  One step of the model is one method   *)
(* call of the host, or one iteration of the `while running` loop of run.  *)
(***************************************************************************)
EXTENDS Integers, Sequences, FiniteSets, TLC

(***************************************************************************)
(* Program constants.                                                      *)
(***************************************************************************)
nullByte == 0
HLT == 1
PRN == 71
LDI == 130
NumRegisters == 8
RAMSize == 256
IM == 5
IS == 6
SP == 7
StackEmpty == 244
I0Vector == 248

\* The attributes __init__ gives a CPU object.
Attributes == {"registers", "IM", "IS", "SP", "PC", "IR", "MAR", "MDR", "FL", "RAM"}

\* The program load() writes, as a 1-indexed sequence.
program == <<130, 0, 8, 71, 0, 1>>

(***************************************************************************)
(* Bounds of the model.                                                    *)
(***************************************************************************)
\* The host stores programs of at most MaxInstr instructions.
MaxInstr == 3
\* The host makes at most MaxCalls single calls of load, ram_write,
\* ram_read, alu and trace before it calls run.
MaxCalls == 2
\* The host may put SlideLen `LDI R0,0` instructions in front of its program,
\* which carries the program counter to the top of memory.
SlideLen == 84

\* The instructions the host builds its programs from: each implemented
\* opcode with valid, reserved and out-of-range register operands, byte and
\* wider immediates, and an unknown opcode.
Instrs ==
  { <<HLT>>, <<255>>, <<PRN, 0>>, <<PRN, 9>>,
    <<LDI, 0, 300>>, <<LDI, 5, 1>>, <<LDI, 6, 1>>, <<LDI, 7, 1>>, <<LDI, 9, 1>> }
\* Addresses and values of the host's single ram_read / ram_write calls.
HostAddrs == {0, 2, 255, 256, -1, -257}
HostVals == {255, 300}
\* Operation names and register operands of the host's alu calls.
AluOps == {"ADD", "SUB", "CMP", "add"}
AluRegs == {0, 1}

VARIABLES
  registers,   \* self.registers, a function 0..7 -> Int
  PC, IR, MAR, MDR, FL,   \* the internal registers
  RAM,         \* self.RAM, a function 0..255 -> Int
  out,         \* the lines printed on standard output so far
  status,      \* "idle", "running" (inside run's loop), "halted" (run has
               \* just returned), "raised" (an exception reached the host)
  err,         \* the exception that reached the host, or "none"
  traceOn,     \* the module's global `trace`
  op,          \* the last step: [name, args]
  calls        \* the host's calls so far, in order: [name, args] each

vars == <<registers, PC, IR, MAR, MDR, FL, RAM, out, status, err, traceOn,
          op, calls>>

(***************************************************************************)
(* The CPU object as a record, so that the methods are operators from      *)
(* records to records.  err is the exception in flight ("none" when there  *)
(* is none): once set, the rest of the call is skipped.  ret is the value  *)
(* the last call returned, running the local variable of run().            *)
(***************************************************************************)
Self ==
  [registers |-> registers, PC |-> PC, IR |-> IR, MAR |-> MAR, MDR |-> MDR,
   FL |-> FL, RAM |-> RAM, out |-> out, err |-> "none", ret |-> 0,
   running |-> TRUE]

\* Python's list subscript: lst[i] of a list of n elements exists for
\* -n <= i < n, and a negative i counts from the end.
IndexOK(i, n) == i >= -n /\ i < n
Index(i, n) == IF i < 0 THEN i + n ELSE i

\* ram_read(address): MAR is assigned before RAM is subscripted.
ram_read(c, address) ==
  IF c.err # "none" THEN c
  ELSE IF IndexOK(address, RAMSize)
    THEN [c EXCEPT !.MAR = address,
                   !.MDR = c.RAM[Index(address, RAMSize)],
                   !.ret = c.RAM[Index(address, RAMSize)]]
    ELSE [c EXCEPT !.MAR = address, !.err = "IndexError"]

\* ram_write() storing into the cell after the addressed one.
ram_write_off_by_one(c, address, value) ==
  IF c.err # "none" THEN c
  ELSE IF IndexOK(address + 1, RAMSize)
    THEN [c EXCEPT !.MAR = address, !.MDR = value,
                   !.RAM = [@ EXCEPT ![Index(address + 1, RAMSize)] = value]]
    ELSE [c EXCEPT !.MAR = address, !.MDR = value, !.err = "IndexError"]

\* ram_write(address, value): MAR and MDR are assigned before the store.
ram_write(c, address, value) ==
  IF c.err # "none" THEN c
  ELSE IF IndexOK(address, RAMSize)
    THEN [c EXCEPT !.MAR = address, !.MDR = value,
                   !.RAM = [@ EXCEPT ![Index(address, RAMSize)] = value]]
    ELSE [c EXCEPT !.MAR = address, !.MDR = value, !.err = "IndexError"]

\* load() with the first byte stored at address 1 instead of 0.
load_from_one(c) ==
  [c EXCEPT !.RAM = [a \in 0..(RAMSize - 1) |->
                       IF a >= 1 /\ a <= Len(program) THEN program[a] ELSE @[a]]]

\* load(): stores the hardcoded program from address 0 upward, straight
\* into RAM (not through ram_write).
load(c) ==
  [c EXCEPT !.RAM = [a \in 0..(RAMSize - 1) |->
                       IF a < Len(program) THEN program[a + 1] ELSE @[a]]]

\* alu() with an else branch that does nothing instead of raising.
alu_silent(c, o, reg_a, reg_b) ==
  IF o = "ADD" THEN [c EXCEPT !.err = "AttributeError"] ELSE c

\* alu(op, reg_a, reg_b): the ADD branch reads self.reg, an attribute the
\* object does not have; every other name raises Exception.
alu(c, o, reg_a, reg_b) ==
  IF o = "ADD"
    THEN IF "reg" \in Attributes
           THEN [c EXCEPT !.registers =
                    [@ EXCEPT ![reg_a] = @ + c.registers[reg_b]]]
           ELSE [c EXCEPT !.err = "AttributeError"]
    ELSE [c EXCEPT !.err = "Exception: Unsupported ALU operation"]

\* The register store refusing the reserved registers R5, R6 and R7.
set_register_unreserved(c, reg_idx, value) ==
  IF c.err # "none" THEN c
  ELSE IF IndexOK(reg_idx, NumRegisters)
    THEN IF Index(reg_idx, NumRegisters) >= IM THEN c
         ELSE [c EXCEPT !.registers[Index(reg_idx, NumRegisters)] = value]
    ELSE [c EXCEPT !.err = "IndexError"]

\* The register store going to the memory cell of that number instead.
set_register_in_ram(c, reg_idx, value) == ram_write(c, reg_idx, value)

\* The register store with the index masked to three bits.
set_register_masked(c, reg_idx, value) ==
  IF c.err # "none" THEN c
  ELSE [c EXCEPT !.registers[reg_idx % NumRegisters] = value]

\* self.registers[reg_idx] = value
set_register(c, reg_idx, value) ==
  IF c.err # "none" THEN c
  ELSE IF IndexOK(reg_idx, NumRegisters)
    THEN [c EXCEPT !.registers[Index(reg_idx, NumRegisters)] = value]
    ELSE [c EXCEPT !.err = "IndexError"]

\* number = self.registers[reg_idx]
get_register(c, reg_idx) ==
  IF c.err # "none" THEN c
  ELSE IF IndexOK(reg_idx, NumRegisters)
    THEN [c EXCEPT !.ret = c.registers[Index(reg_idx, NumRegisters)]]
    ELSE [c EXCEPT !.err = "IndexError"]

\* print(...): one line on standard output.
print(c, kind, val) ==
  IF c.err # "none" THEN c
  ELSE [c EXCEPT !.out = Append(@, [kind |-> kind, val |-> val])]

\* trace(): reads RAM at PC, PC + 1 and PC + 2 through ram_read, then prints
\* them with PC and the eight registers.
trace(c) ==
  LET r0 == ram_read(c, c.PC)
      r1 == ram_read(r0, c.PC + 1)
      r2 == ram_read(r1, c.PC + 2)
  IN  print(r2, "TRACE",
            <<c.PC, r0.ret, r1.ret, r2.ret>> \o
            [i \in 1..NumRegisters |-> c.registers[i - 1]])

\* The HLT branch of run().
exec_HLT(c) == [c EXCEPT !.running = FALSE]

\* The LDI branch without its second `self.PC += 1`: the immediate is read
\* from the operand's cell.
exec_LDI_short(c) ==
  LET c1 == [c EXCEPT !.PC = @ + 1]
      r1 == ram_read(c1, c1.PC)
      r2 == ram_read(r1, r1.PC)
  IN  set_register(r2, r1.ret, r2.ret)

\* The LDI branch reading a two-byte immediate, high byte first.
exec_LDI_wide(c) ==
  LET c1 == [c EXCEPT !.PC = @ + 1]
      r1 == ram_read(c1, c1.PC)
      c2 == IF r1.err = "none" THEN [r1 EXCEPT !.PC = @ + 1] ELSE r1
      r2 == ram_read(c2, c2.PC)
      c3 == IF r2.err = "none" THEN [r2 EXCEPT !.PC = @ + 1] ELSE r2
      r3 == ram_read(c3, c3.PC)
  IN  set_register(r3, r1.ret, r2.ret * 256 + r3.ret)

\* The LDI branch of run().
exec_LDI(c) ==
  LET c1 == [c EXCEPT !.PC = @ + 1]
      r1 == ram_read(c1, c1.PC)
      c2 == IF r1.err = "none" THEN [r1 EXCEPT !.PC = @ + 1] ELSE r1
      r2 == ram_read(c2, c2.PC)
  IN  set_register(r2, r1.ret, r2.ret)

\* The PRN branch printing its operand byte instead of the register.
exec_PRN_operand(c) ==
  LET c1 == [c EXCEPT !.PC = @ + 1]
      r1 == ram_read(c1, c1.PC)
      g  == get_register(r1, r1.ret)
  IN  print(g, "PRN", <<r1.ret>>)

\* The PRN branch of run().
exec_PRN(c) ==
  LET c1 == [c EXCEPT !.PC = @ + 1]
      r1 == ram_read(c1, c1.PC)
      g  == get_register(r1, r1.ret)
  IN  print(g, "PRN", <<g.ret>>)

\* The else branch without `running = False`.
exec_unknown_goes_on(c) == print(c, "Unimplemented", <<c.IR>>)

\* The else branch of run().
exec_unknown(c) ==
  [print(c, "Unimplemented", <<c.IR>>) EXCEPT !.running = FALSE]

\* The fetch and the if/elif chain of one iteration of run()'s loop.
execute(c) ==
  LET f == ram_read(c, c.PC)
      d == [f EXCEPT !.IR = f.ret]
  IN  IF f.err # "none" THEN f
      ELSE IF d.IR = HLT THEN exec_HLT(d)
      ELSE IF d.IR = LDI THEN exec_LDI(d)
      ELSE IF d.IR = PRN THEN exec_PRN(d)
      ELSE exec_unknown(d)

\* The iteration without its final `self.PC += 1`.
advance_forgotten(c) == c

\* The final increment with PC kept to 8 bits.
advance_wrapping(c) ==
  IF c.err # "none" THEN c ELSE [c EXCEPT !.PC = (@ + 1) % RAMSize]

\* self.PC += 1 at the end of the iteration.
advance(c) == IF c.err # "none" THEN c ELSE [c EXCEPT !.PC = @ + 1]

\* One iteration of run()'s loop, with the global `trace` equal to tr.
run_cycle(c, tr) ==
  LET a == advance(execute(c))
  IN  IF tr /\ a.err = "none" THEN trace(a) ELSE a

(***************************************************************************)
(* The host's programs.                                                    *)
(***************************************************************************)
RECURSIVE Flatten(_)
Flatten(instrs) ==
  IF instrs = <<>> THEN <<>> ELSE Head(instrs) \o Flatten(Tail(instrs))

InstrSeqs == UNION { [1..n -> Instrs] : n \in 1..MaxInstr }

\* k copies of LDI R0,0.
Slide(k) == [i \in 1..(3 * k) |-> IF i % 3 = 1 THEN LDI ELSE 0]

\* The host stores bytes from address base >= 0 upward, one ram_write each,
\* until all are stored or a ram_write raises: the calls before the failing
\* one have stored their bytes, the failing one has set MAR and MDR.
store(c, base, bytes) ==
  LET n    == Len(bytes)
      bad  == {i \in 1..n : ~IndexOK(base + i - 1, RAMSize)}
      last == IF bad = {} THEN n
              ELSE CHOOSE i \in bad : \A j \in bad : i <= j
      done == IF bad = {} THEN n ELSE last - 1
  IN  IF n = 0 THEN c
      ELSE [c EXCEPT
              !.MAR = base + last - 1,
              !.MDR = bytes[last],
              !.err = IF bad = {} THEN "none" ELSE "IndexError",
              !.RAM = [a \in 0..(RAMSize - 1) |->
                         IF a >= base /\ a < base + done
                           THEN bytes[a - base + 1] ELSE @[a]]]

(***************************************************************************)
(* The state machine.                                                      *)
(***************************************************************************)
\* The state of the object c becomes the state of the CPU.
Becomes(c) ==
  /\ registers' = c.registers
  /\ PC' = c.PC
  /\ IR' = c.IR
  /\ MAR' = c.MAR
  /\ MDR' = c.MDR
  /\ FL' = c.FL
  /\ RAM' = c.RAM
  /\ out' = c.out
  /\ err' = c.err

\* The host's call returned (to "idle") or raised.
Returned(c) == status' = IF c.err = "none" THEN "idle" ELSE "raised"

\* __init__ without the assignment of the stack pointer.
Constructed_no_stack ==
  /\ registers = [r \in 0..(NumRegisters - 1) |-> nullByte]
  /\ PC = 0
  /\ IR = nullByte
  /\ MAR = nullByte
  /\ MDR = nullByte
  /\ FL = nullByte
  /\ RAM = [a \in 0..(RAMSize - 1) |-> nullByte]
  /\ out = <<>>
  /\ status = "idle"
  /\ err = "none"
  /\ op = [name |-> "init", args |-> <<>>]
  /\ calls = <<>>

\* __init__, with the module's globals as written (trace = False).
Constructed ==
  /\ registers = [r \in 0..(NumRegisters - 1) |->
                    IF r = SP THEN StackEmpty ELSE nullByte]
  /\ PC = 0
  /\ IR = nullByte
  /\ MAR = nullByte
  /\ MDR = nullByte
  /\ FL = nullByte
  /\ RAM = [a \in 0..(RAMSize - 1) |-> nullByte]
  /\ out = <<>>
  /\ status = "idle"
  /\ err = "none"
  /\ op = [name |-> "init", args |-> <<>>]
  /\ calls = <<>>

Init == Constructed /\ traceOn = FALSE

\* The same, with the trace toggle switched on.
InitTrace == Constructed /\ traceOn = TRUE

\* The names of the host's calls so far.
Called == [i \in 1..Len(calls) |-> calls[i].name]
ran == \E i \in 1..Len(calls) : calls[i].name = "run"
stored == \E i \in 1..Len(calls) : calls[i].name = "store"

\* The host's single calls before run: at most MaxCalls of them, and none
\* once it has stored a program of its own.
Probing == status = "idle" /\ ~ran /\ ~stored /\ Len(calls) < MaxCalls

\* The host calls method name with args; c is the object when it returns
\* or raises.
Call(name, args, c) ==
  /\ Becomes(c)
  /\ Returned(c)
  /\ op' = [name |-> name, args |-> args]
  /\ calls' = Append(calls, [name |-> name, args |-> args])
  /\ UNCHANGED traceOn

Load ==
  /\ Probing
  /\ Call("load", <<>>, load(Self))

RamWrite(a, v) ==
  /\ Probing
  /\ Call("ram_write", <<a, v>>, ram_write(Self, a, v))

RamRead(a) ==
  /\ Probing
  /\ Call("ram_read", <<a>>, ram_read(Self, a))

\* The host calls alu(): before run, or once when run has returned.
Alu(o, reg_a, reg_b) ==
  /\ Probing \/ status = "halted"
  /\ Call("alu", <<o, reg_a, reg_b>>, alu(Self, o, reg_a, reg_b))

\* The host calls trace(): before run, or once when run has returned.
Trace ==
  /\ Probing \/ status = "halted"
  /\ Call("trace", <<>>, trace(Self))

\* The host stores a program of its own, behind a slide of k instructions,
\* in a newly constructed CPU.
StoreProgram(k, instrs) ==
  /\ Probing /\ calls = <<>>
  /\ 3 * k + Len(Flatten(instrs)) <= RAMSize
  /\ Call("store", <<3 * k>>, store(Self, 0, Slide(k) \o Flatten(instrs)))

\* run() is called: running = True.
Run ==
  /\ status = "idle" /\ ~ran
  /\ status' = "running"
  /\ op' = [name |-> "run", args |-> <<>>]
  /\ calls' = Append(calls, [name |-> "run", args |-> <<>>])
  /\ UNCHANGED <<registers, PC, IR, MAR, MDR, FL, RAM, out, err, traceOn>>

\* One iteration of the loop of run().
Cycle ==
  /\ status = "running"
  /\ LET c == run_cycle(Self, traceOn)
     IN  /\ Becomes(c)
         /\ status' = IF c.err # "none" THEN "raised"
                      ELSE IF c.running THEN "running" ELSE "halted"
  /\ op' = [name |-> "cycle", args |-> <<PC>>]
  /\ UNCHANGED <<traceOn, calls>>

Next ==
  \/ Load
  \/ Probing /\ \E a \in HostAddrs, v \in HostVals : RamWrite(a, v)
  \/ Probing /\ \E a \in HostAddrs : RamRead(a)
  \/ \E o \in AluOps, reg_a \in AluRegs, reg_b \in AluRegs : Alu(o, reg_a, reg_b)
  \/ Trace
  \/ Probing /\ calls = <<>> /\
       \E k \in {0, SlideLen}, instrs \in InstrSeqs : StoreProgram(k, instrs)
  \/ Run
  \/ Cycle

Spec == Init /\ [][Next]_vars

SpecTrace == InitTrace /\ [][Next]_vars

(***************************************************************************)
(* The claims.                                                             *)
(***************************************************************************)
\* What one line of output looks like.
Line(kind, val) == [kind |-> kind, val |-> val]

\* C1: on a newly constructed CPU, load() and then run() print exactly one
\* line, the decimal 8, and run returns normally (HALTED) with PC = 6; on
\* the way the loop fetches at 0, 3 and 5 only.
C1_LoadRunPrints8 ==
  Called = <<"load", "run">> =>
    /\ status = "running" => PC \in {0, 3, 5}
    /\ status # "running" =>
         /\ status = "halted"
         /\ err = "none"
         /\ out = <<Line("PRN", <<8>>)>>
         /\ PC = 6

C1_Witness ==
  /\ Called = <<"load", "run">>
  /\ status = "halted"
  /\ out = <<Line("PRN", <<8>>)>>
  /\ PC = 6

\* C2: a cycle of run() that fetches a byte other than HLT, LDI and PRN
\* prints the unimplemented-command line carrying that byte, ends the loop
\* (run returns normally, nothing is raised) and changes no register and no
\* memory cell.
C2_UnknownOpcodeHalts ==
  [][ ( /\ status = "running"
        /\ PC \in 0..(RAMSize - 1)
        /\ RAM[PC] \notin {HLT, LDI, PRN} )
      => ( /\ status' = "halted"
           /\ err' = "none"
           /\ out' = Append(out, Line("Unimplemented", <<RAM[PC]>>))
           /\ registers' = registers
           /\ RAM' = RAM ) ]_vars

C2_Witness ==
  /\ Called = <<"ram_write", "run">>
  /\ calls[1].args = <<0, 255>>
  /\ status = "halted"
  /\ IR = 255
  /\ out = <<Line("Unimplemented", <<255>>)>>

\* C3: a cycle that starts with bit 0 of both IM (R5) and IS (R6) set
\* services interrupt 0 instead of fetching: PC, FL and R0..R6 are pushed in
\* that order (SP decremented before each write, so SP ends 9 lower), bit 0
\* of IS is cleared, and PC becomes the byte at the vector address 0xF8.
C3_InterruptServiced ==
  [][ ( /\ status = "running"
        /\ registers[IM] % 2 = 1
        /\ registers[IS] % 2 = 1 )
      => ( /\ registers'[SP] = registers[SP] - 9
           /\ RAM'[(registers[SP] - 1) % RAMSize] = PC
           /\ RAM'[(registers[SP] - 2) % RAMSize] = FL
           /\ \A i \in 0..6 : RAM'[(registers[SP] - 3 - i) % RAMSize] = registers[i]
           /\ registers'[IS] % 2 = 0
           /\ PC' = RAM[I0Vector]
           /\ out' = out ) ]_vars

\* C4: alu("ADD", reg_a, reg_b) on distinct registers holding bytes a and b
\* returns normally, leaves (a + b) mod 256 in reg_a and changes no other
\* register.
C4_AluAddWraps ==
  [][ ( /\ op'.name = "alu"
        /\ op'.args[1] = "ADD"
        /\ op'.args[2] # op'.args[3]
        /\ registers[op'.args[2]] \in 0..255
        /\ registers[op'.args[3]] \in 0..255 )
      => ( /\ err' = "none"
           /\ registers' = [registers EXCEPT ![op'.args[2]] =
                              (@ + registers[op'.args[3]]) % 256] ) ]_vars

\* C5: an LDI that stores a value in 0..511, taken from a memory cell, into
\* register 0..7 leaves value mod 256 in that register.
C5_RegisterWriteMasks ==
  [][ ( /\ status = "running"
        /\ PC \in 0..(RAMSize - 3)
        /\ RAM[PC] = LDI
        /\ RAM[PC + 1] \in 0..(NumRegisters - 1)
        /\ RAM[PC + 2] \in 0..511 )
      => registers'[RAM[PC + 1]] = RAM[PC + 2] % 256 ]_vars

\* C6: alu() with an operation name other than ADD raises the
\* unsupported-operation exception and changes no register, no memory cell,
\* not PC and not FL.
C6_AluUnsupportedRaises ==
  [][ ( /\ op'.name = "alu"
        /\ op'.args[1] # "ADD" )
      => ( /\ status' = "raised"
           /\ err' = "Exception: Unsupported ALU operation"
           /\ registers' = registers
           /\ RAM' = RAM
           /\ PC' = PC
           /\ FL' = FL ) ]_vars

C6_Witness ==
  /\ op.name = "alu"
  /\ op.args[1] = "SUB"
  /\ status = "raised"
  /\ err = "Exception: Unsupported ALU operation"
  /\ registers[0] = 300

\* C7: a cycle that executes LDI or PRN with a register operand byte in
\* 8..255 aborts the run with an error: no register and no memory cell is
\* changed and nothing is printed.
C7_BadRegisterAborts ==
  [][ ( /\ status = "running"
        /\ PC \in 0..(RAMSize - 2)
        /\ RAM[PC] \in {LDI, PRN}
        /\ RAM[PC + 1] \in 8..255 )
      => ( /\ status' = "raised"
           /\ err' = "IndexError"
           /\ registers' = registers
           /\ RAM' = RAM
           /\ out' = out ) ]_vars

C7_Witness ==
  /\ op.name = "cycle"
  /\ status = "raised"
  /\ IR = LDI
  /\ PC \in 2..(RAMSize - 1)
  /\ RAM[PC - 2] = LDI
  /\ RAM[PC - 1] \in 8..255
  /\ MAR = PC
  /\ MDR = RAM[PC]

\* C8: ram_read and ram_write with an address outside 0..255, negative or
\* 256 and above, raise an error and read or write no memory cell.
C8_BadAddressRaises ==
  [][ ( /\ op'.name \in {"ram_read", "ram_write"}
        /\ op'.args[1] \notin 0..(RAMSize - 1) )
      => ( /\ status' = "raised"
           /\ err' # "none"
           /\ RAM' = RAM
           /\ op'.name = "ram_read" => MDR' = MDR ) ]_vars

\* C9: trace() changes no register, no memory cell and not PC, and a run
\* with the trace toggle on goes through the same registers, memory and PC,
\* cycle by cycle, as the run with the toggle off: each cycle ends in the
\* state the cycle without trace() ends in, and goes on, returns or raises
\* as that cycle does.
C9_TraceIsTransparent ==
  [][ /\ op'.name = "trace" =>
           registers' = registers /\ RAM' = RAM /\ PC' = PC
      /\ status = "running" =>
           LET u == run_cycle(Self, FALSE)
           IN  /\ registers' = u.registers
               /\ RAM' = u.RAM
               /\ PC' = u.PC
               /\ status' = IF u.err # "none" THEN "raised"
                            ELSE IF u.running THEN "running" ELSE "halted"
    ]_vars

\* C10: after load() on a newly constructed CPU, ram_read(i) returns the
\* i-th program byte for i below the program's length, and zero for every
\* address from there up to 255.
C10_LoadStoresProgram ==
  Called = <<"load">> =>
    \A a \in 0..(RAMSize - 1) :
      /\ ram_read(Self, a).err = "none"
      /\ ram_read(Self, a).ret =
           IF a < Len(program) THEN program[a + 1] ELSE 0

C10_Witness ==
  /\ Called = <<"load">>
  /\ status = "idle"
  /\ RAM[0] = LDI /\ RAM[3] = PRN /\ RAM[5] = HLT
  /\ RAM[6] = 0


\* The FL bits 00000LGE.
FlagL == 4
FlagG == 2
FlagE == 1

\* C11: alu("CMP", reg_a, reg_b) on registers holding a and b returns
\* normally and leaves exactly one flag in FL, L if a < b, G if a > b, E if
\* a = b, with the bits above bit 2 zero, and changes no register.
C11_CmpSetsOneFlag ==
  [][ ( /\ op'.name = "alu"
        /\ op'.args[1] = "CMP" )
      => ( /\ err' = "none"
           /\ FL' = IF registers[op'.args[2]] < registers[op'.args[3]] THEN FlagL
                    ELSE IF registers[op'.args[2]] > registers[op'.args[3]] THEN FlagG
                    ELSE FlagE
           /\ registers' = registers ) ]_vars

\* C12: a cycle that executes PRN on a register 0..7 appends exactly one
\* line, the value of that register, and changes no register and no memory
\* cell; a cycle that executes LDI or HLT prints nothing.
C12_PrnPrintsRegister ==
  [][ /\ ( /\ status = "running"
           /\ PC \in 0..(RAMSize - 2)
           /\ RAM[PC] = PRN
           /\ RAM[PC + 1] \in 0..(NumRegisters - 1) )
         => ( /\ out' = Append(out, Line("PRN", <<registers[RAM[PC + 1]]>>))
              /\ registers' = registers
              /\ RAM' = RAM
              /\ err' = "none" )
      /\ ( /\ status = "running"
           /\ PC \in 0..(RAMSize - 1)
           /\ RAM[PC] \in {LDI, HLT} )
         => out' = out ]_vars

C12_Witness ==
  /\ op.name = "cycle"
  /\ IR = PRN
  /\ status = "running"
  /\ registers[0] = 300
  /\ out = <<Line("PRN", <<300>>)>>

\* C13: a cycle that executes the implemented instruction at address p
\* leaves PC = p + 3 after LDI, p + 2 after PRN and p + 1 after HLT.
C13_PcAdvance ==
  [][ ( /\ status = "running"
        /\ status' # "raised"
        /\ PC \in 0..(RAMSize - 1)
        /\ RAM[PC] \in {LDI, PRN, HLT} )
      => PC' = PC + (IF RAM[PC] = LDI THEN 3 ELSE IF RAM[PC] = PRN THEN 2 ELSE 1)
    ]_vars

C13_Witness ==
  /\ op.name = "cycle"
  /\ IR = LDI
  /\ status = "running"
  /\ op.args = <<3>>
  /\ PC = 6
  /\ registers[IS] = 1

\* C14: once run() has been called (from PC = 0), PC is an address in
\* 0..255 in every state, the state in which run() has returned included.
C14_PcIsAnAddress ==
  ran => PC \in 0..(RAMSize - 1)

\* C15: when every memory cell holds a byte, every register holds a value
\* in 0..255, during the run and after it (run() writes no memory cell, so
\* the cells of any state of a run are the cells the run started from).
C15_RegistersAreBytes ==
  (\A a \in 0..(RAMSize - 1) : RAM[a] \in 0..255)
    => \A r \in 0..(NumRegisters - 1) : registers[r] \in 0..255

C15_Witness ==
  /\ ran
  /\ status = "halted"
  /\ \A a \in 0..(RAMSize - 1) : RAM[a] \in 0..255
  /\ registers[IM] = 1
  /\ registers[SP] = 1

\* C16: run() terminates: inside the loop PC is in 0..256, and every
\* iteration either ends the loop, by returning (HALTED) or by raising, or
\* leaves PC higher than it found it; so the loop ends within 256
\* iterations.
C16_RunTerminates ==
  [][ status = "running"
      => /\ PC \in 0..RAMSize
         /\ \/ status' \in {"halted", "raised"}
            \/ status' = "running" /\ PC' > PC /\ PC' <= RAMSize ]_vars

C16_Witness ==
  /\ op.name = "cycle"
  /\ status = "raised"
  /\ PC = RAMSize
  /\ MAR = RAMSize
  /\ Len(out) = 2

\* C17: a cycle that executes LDI with register operand n in 0..7 and an
\* immediate byte v leaves v in register n and changes no other register,
\* no memory cell and not FL; R5, R6 and R7 are written like the others.
C17_LdiWritesOneRegister ==
  [][ ( /\ status = "running"
        /\ PC \in 0..(RAMSize - 3)
        /\ RAM[PC] = LDI
        /\ RAM[PC + 1] \in 0..(NumRegisters - 1)
        /\ RAM[PC + 2] \in 0..255 )
      => ( /\ registers' = [registers EXCEPT ![RAM[PC + 1]] = RAM[PC + 2]]
           /\ RAM' = RAM
           /\ FL' = FL
           /\ err' = "none" ) ]_vars

C17_Witness ==
  /\ op.name = "cycle"
  /\ IR = LDI
  /\ status = "running"
  /\ RAM[op.args[1] + 1] = SP
  /\ registers[SP] = 1
  /\ registers[IM] = 1
  /\ registers[IS] = 1

\* C18: for an address a in 0..255, ram_write(a, v) changes cell a only and
\* leaves MAR = a, MDR = v; ram_read(a) changes no cell and leaves MAR = a,
\* MDR = the cell's value, which it returns; and ram_read(a) right after
\* ram_write(a, v) returns v.
C18_WriteThenRead ==
  [][ /\ ( op'.name = "ram_write" /\ op'.args[1] \in 0..(RAMSize - 1) )
         => ( /\ RAM' = [RAM EXCEPT ![op'.args[1]] = op'.args[2]]
              /\ MAR' = op'.args[1]
              /\ MDR' = op'.args[2]
              /\ err' = "none" )
      /\ ( op'.name = "ram_read" /\ op'.args[1] \in 0..(RAMSize - 1) )
         => ( /\ RAM' = RAM
              /\ MAR' = op'.args[1]
              /\ MDR' = RAM[op'.args[1]]
              /\ err' = "none" )
      /\ ( /\ op.name = "ram_write"
           /\ status = "idle"
           /\ op'.name = "ram_read"
           /\ op'.args[1] = op.args[1] )
         => MDR' = op.args[2] ]_vars

C18_Witness ==
  /\ Called = <<"ram_write", "ram_read">>
  /\ calls[1].args = <<2, 255>>
  /\ calls[2].args = <<2>>
  /\ status = "idle"
  /\ MAR = 2
  /\ MDR = 255

\* C19: run() writes no memory cell and not FL: every iteration of its loop
\* leaves all 256 cells as they were, and FL is 0 before and after it.
C19_RunWritesNoMemory ==
  [][ status = "running"
      => ( /\ RAM' = RAM
           /\ FL = nullByte
           /\ FL' = nullByte ) ]_vars

C19_Witness ==
  /\ op.name = "cycle"
  /\ IR = LDI
  /\ status = "running"
  /\ registers[0] = 300
  /\ RAM[2] = 300
  /\ FL = nullByte

\* C20: right after construction R0..R6 are 0, R7 is 0xF4, PC and FL are 0
\* and all 256 memory cells are 0.
C20_PowerOnState ==
  calls = <<>> =>
    /\ \A r \in 0..6 : registers[r] = 0
    /\ registers[7] = 244
    /\ PC = 0
    /\ FL = 0
    /\ \A a \in 0..255 : ram_read(Self, a).ret = 0

C20_Witness ==
  /\ calls = <<>>
  /\ op.name = "init"
  /\ status = "idle"
  /\ DOMAIN RAM = 0..255
  /\ DOMAIN registers = 0..7

====
